---- MODULE Spec2Model ----
(***************************************************************************)
(* teuthology/task/ceph-fuse.py: the ceph-fuse task, a context manager     *)
(* that launches one ceph-fuse daemon per client, waits for the mounts,    *)
(* yields to the enclosed workload and tears the mounts down afterwards.   *)
(*                                                                         *)
(* The coordinator (the generator `task`) is a sequential process with a   *)
(* program counter `pc` and a loop index `idx`.  The remote hosts are the  *)
(* environment: daemons mount, exit and crash on their own.                *)
(***************************************************************************)
EXTENDS Integers, Sequences, FiniteSets, TLC

(***************************************************************************)
(* Bounds                                                                  *)
(***************************************************************************)
MaxClients == 2
MaxHosts == 2

(***************************************************************************)
(* Python values: None / optional values, truthiness                       *)
(***************************************************************************)
None == <<>>
Some(v) == <<v>>
Val(o) == o[1]
Truthy(o) == o # None /\ Val(o) = TRUE

\* the value of `timeout:` in the docstring example
FuseTimeout == 300

(***************************************************************************)
(* Exceptions                                                              *)
(***************************************************************************)
Exc(t, c) == [type |-> t, client |-> c]
NoExc == Exc("none", "")
CommandFailedError(c) == Exc("CommandFailedError", c)
MountTimeoutError(c) == Exc("MountTimeoutError", c)
WorkloadError == Exc("WorkloadError", "")

(***************************************************************************)
(* Client ids, names and mount points                                      *)
(***************************************************************************)
IdOf(i) == ToString(i - 1)
Hosts == 1..MaxHosts

\* 'client.{id}'.format(id=id_)
ClientName(id_) == "client." \o id_

\* os.path.join('/tmp/cephtest', 'mnt.{id}'.format(id=id_))
Mnt(id_) == "/tmp/cephtest" \o "/" \o ("mnt." \o id_)

(***************************************************************************)
(* The per-client configuration dictionary.  A key that is absent reads    *)
(* as None through dict.get.                                               *)
(***************************************************************************)
EmptyConfig ==
    [valgrind |-> None, coverage |-> None, timeout |-> None, cleanup_on_failure |-> None]

ValgrindOpts == {None, Some(<<>>), Some(<<"--tool=memcheck">>)}
CoverageOpts == {None, Some(FALSE), Some(TRUE)}
TimeoutOpts == {None, Some(FuseTimeout)}
CleanupOpts == {None, Some(TRUE)}

\* configurations that differ in the options read by teardown
TeardownConfigs ==
    {None} \cup
    {Some([EmptyConfig EXCEPT !.timeout = t, !.cleanup_on_failure = c]) :
        t \in TimeoutOpts, c \in CleanupOpts}

\* configurations that differ in the options read by launch, and one that
\* sets the options read by teardown
LaunchConfigs ==
    {Some([EmptyConfig EXCEPT !.valgrind = v, !.coverage = c]) :
        v \in ValgrindOpts, c \in CoverageOpts} \cup
    {Some([EmptyConfig EXCEPT !.timeout = Some(FuseTimeout),
                              !.cleanup_on_failure = Some(TRUE)])}

VARIABLES
    clients,        \* list of (id_, remote) pairs, in resolved order
    config,         \* "client.<id>" -> None | dict
    pc,             \* position of the generator
    idx,            \* position of the current for loop in `clients`
    fuse_daemons,   \* id_ -> the process started by remote.run(wait=False)
    proc,           \* host side: state of each daemon process
    mounted,        \* host side: is the mount point a mounted filesystem
    dirs,           \* host side: does the mount-point directory exist
    aborted,        \* host side: fuse connections that were aborted
    issued,         \* commands issued so far, per kind, by client of the loop
    failed,         \* <<command, id_>> of every command that failed
    mountObserved,  \* clients whose mount wait_until_fuse_mounted observed
    entered,        \* has the generator yielded to the workload
    teardownStarts, \* number of times the finally block was entered
    pending,        \* exception thrown into the generator at the yield
    raised          \* exception that leaves the generator

vars == <<clients, config, pc, idx, fuse_daemons, proc, mounted, dirs, aborted,
          issued, failed, mountObserved, entered, teardownStarts, pending, raised>>

envVars == <<proc, mounted, dirs, aborted>>
histVars == <<issued, failed, mountObserved, entered, teardownStarts, pending>>

N == Len(clients)
Ids == {clients[i].id : i \in 1..N}
Launched == DOMAIN fuse_daemons

\* remote of the current loop iteration, and the clients that share it
OnRemote(remote) == {clients[i].id : i \in {j \in 1..N : clients[j].remote = remote}}

(***************************************************************************)
(* Lines 135-137 and 199-203: reading the configuration of one client      *)
(***************************************************************************)
\* client_config = config.get("client.%s" % id_); None becomes {}
client_config(id_) ==
    IF config[ClientName(id_)] = None THEN EmptyConfig ELSE Val(config[ClientName(id_)])

\* fuse_timeout = client_config.get('timeout')
fuse_timeout(id_) == client_config(id_).timeout

\* cleanup_on_failure = client_config.get('cleanup_on_failure', False)
cleanup_on_failure(id_) ==
    IF client_config(id_).cleanup_on_failure = None THEN FALSE
    ELSE Val(client_config(id_).cleanup_on_failure)

(***************************************************************************)
(* Lines 140-176: the launch command                                       *)
(***************************************************************************)
daemon_signal_truthy(cc) ==
    IF Truthy(cc.coverage) \/ (cc.valgrind # None /\ Val(cc.valgrind) # <<>>)
    THEN "term" ELSE "kill"

\* daemon_signal = 'kill'; 'term' if coverage is truthy or valgrind is not None
daemon_signal(cc) ==
    IF Truthy(cc.coverage) \/ cc.valgrind # None THEN "term" ELSE "kill"

\* teuthology.get_valgrind_args(name, v): the instrumentation argument sequence
get_valgrind_args(name, v) == v

run_cmd_head(cc) ==
    << "/tmp/cephtest/enable-coredump",
       "/tmp/cephtest/binary/usr/local/bin/ceph-coverage",
       "/tmp/cephtest/archive/coverage",
       "/tmp/cephtest/daemon-helper",
       daemon_signal(cc) >>

run_cmd_tail(id_) ==
    << "/tmp/cephtest/binary/usr/local/bin/ceph-fuse",
       "-f",
       "--name", ClientName(id_),
       "-c", "/tmp/cephtest/ceph.conf",
       Mnt(id_) >>

run_cmd_valgrind_last(id_, cc) ==
    run_cmd_head(cc) \o run_cmd_tail(id_) \o
    (IF cc.valgrind # None THEN get_valgrind_args(ClientName(id_), Val(cc.valgrind))
     ELSE <<>>)

\* run_cmd, extended by the valgrind arguments when valgrind is not None,
\* then by run_cmd_tail
run_cmd(id_, cc) ==
    run_cmd_head(cc) \o
    (IF cc.valgrind # None THEN get_valgrind_args(ClientName(id_), Val(cc.valgrind))
     ELSE <<>>) \o
    run_cmd_tail(id_)

(***************************************************************************)
(* Initial states: the state of `task` at line 130, after the client list  *)
(* and the configuration were resolved, on hosts with no mount points.     *)
(***************************************************************************)
\* lists of (id_, remote): distinct ids; the first client is on host 1 and
\* every further client on a host already used or on the next unused one
ClientLists ==
    UNION {
        { [i \in 1..n |-> [id |-> IdOf(i), remote |-> h[i]]] :
            h \in { g \in [1..n -> Hosts] :
                      /\ g[1] = 1
                      /\ \A i \in 2..n : \E j \in 1..(i-1) : g[i] <= g[j] + 1 } }
        : n \in 1..MaxClients }

InitWith(Configs) ==
    /\ clients \in ClientLists
    /\ config \in [{ClientName(clients[i].id) : i \in 1..Len(clients)} -> Configs]
    /\ pc = "launch"
    /\ idx = 1
    /\ fuse_daemons = << >>
    /\ proc = [c \in Ids |-> "none"]
    /\ mounted = [c \in Ids |-> FALSE]
    /\ dirs = [c \in Ids |-> FALSE]
    /\ aborted = [c \in Ids |-> FALSE]
    /\ issued = [mkdir |-> {}, unmount |-> {}, abort |-> {}, umount |-> {},
                 wait |-> {}, kill |-> {}, rmdir |-> {}]
    /\ failed = {}
    /\ mountObserved = {}
    /\ entered = FALSE
    /\ teardownStarts = 0
    /\ pending = NoExc
    /\ raised = NoExc

Init == InitWith(TeardownConfigs)
InitLaunch == InitWith(LaunchConfigs)

(***************************************************************************)
(* Helpers of the coordinator                                              *)
(***************************************************************************)
cur == clients[idx]

Issue(op, id_) == [issued EXCEPT ![op] = @ \cup {id_}]

\* an exception leaves the generator
Raise(e) ==
    /\ pc' = "exited"
    /\ raised' = e
    /\ idx' = idx

\* the for loop goes to its next iteration, or falls through to `after`
Continue(loop, after) ==
    /\ raised' = raised
    /\ IF idx < N THEN pc' = loop /\ idx' = idx + 1
                  ELSE pc' = after /\ idx' = 1

(***************************************************************************)
(* Lines 130-184: one iteration of the launch loop                         *)
(***************************************************************************)
Launch_ThenWait ==
    /\ pc = "launch"
    /\ issued' = Issue("mkdir", cur.id)
    /\ UNCHANGED <<clients, config, mounted, aborted, mountObserved, entered,
                   teardownStarts, pending>>
    /\ \/ /\ failed' = failed \cup {<<"mkdir", cur.id>>}
          /\ Raise(CommandFailedError(cur.id))
          /\ UNCHANGED <<fuse_daemons, proc, dirs>>
       \/ /\ ~dirs[cur.id]
          /\ dirs' = [dirs EXCEPT ![cur.id] = TRUE]
          /\ failed' = failed \cup {<<"launch", cur.id>>}
          /\ Raise(CommandFailedError(cur.id))
          /\ UNCHANGED <<fuse_daemons, proc>>
       \/ /\ ~dirs[cur.id]
          /\ dirs' = [dirs EXCEPT ![cur.id] = TRUE]
          /\ fuse_daemons' = (cur.id :> run_cmd(cur.id, client_config(cur.id))) @@ fuse_daemons
          /\ proc' = [proc EXCEPT ![cur.id] = "running"]
          /\ failed' = failed
          /\ pc' = "mountwait" /\ idx' = idx /\ raised' = raised

Launch ==
    /\ pc = "launch"
    /\ issued' = Issue("mkdir", cur.id)
    /\ UNCHANGED <<clients, config, mounted, aborted, mountObserved, entered,
                   teardownStarts, pending>>
    /\ \/ \* mkdir fails: the CommandFailedError leaves the generator
          /\ failed' = failed \cup {<<"mkdir", cur.id>>}
          /\ Raise(CommandFailedError(cur.id))
          /\ UNCHANGED <<fuse_daemons, proc, dirs>>
       \/ \* mkdir succeeds, remote.run(wait=False) cannot start the command
          /\ ~dirs[cur.id]
          /\ dirs' = [dirs EXCEPT ![cur.id] = TRUE]
          /\ failed' = failed \cup {<<"launch", cur.id>>}
          /\ Raise(CommandFailedError(cur.id))
          /\ UNCHANGED <<fuse_daemons, proc>>
       \/ \* mkdir succeeds and the daemon is started: fuse_daemons[id_] = proc
          /\ ~dirs[cur.id]
          /\ dirs' = [dirs EXCEPT ![cur.id] = TRUE]
          /\ fuse_daemons' = (cur.id :> run_cmd(cur.id, client_config(cur.id))) @@ fuse_daemons
          /\ proc' = [proc EXCEPT ![cur.id] = "running"]
          /\ failed' = failed
          /\ Continue("launch", "mountwait")

(***************************************************************************)
(* Lines 186-192: one iteration of the mount-wait loop, then line 195      *)
(***************************************************************************)
\* teuthology.wait_until_fuse_mounted(remote, fuse, mountpoint): returns once
\* the mount is observable, fails with a mount-timeout error otherwise
wait_until_fuse_mounted(id_) == IF mounted[id_] THEN "mounted" ELSE "timeout"

MountWait_NoCheck ==
    /\ pc = "mountwait"
    /\ mountObserved' = IF mounted[cur.id] THEN mountObserved \cup {cur.id} ELSE mountObserved
    /\ Continue("mountwait", "workload")
    /\ entered' = (idx = N)
    /\ failed' = failed
    /\ UNCHANGED <<clients, config, fuse_daemons, envVars, issued, teardownStarts, pending>>

MountWait_TeardownOnFail ==
    /\ pc = "mountwait"
    /\ UNCHANGED <<clients, config, fuse_daemons, envVars, issued>>
    /\ IF wait_until_fuse_mounted(cur.id) = "mounted"
       THEN /\ mountObserved' = mountObserved \cup {cur.id}
            /\ Continue("mountwait", "workload")
            /\ entered' = (idx = N)
            /\ failed' = failed
            /\ UNCHANGED <<teardownStarts, pending>>
       ELSE /\ failed' = failed \cup {<<"mountwait", cur.id>>}
            /\ pending' = MountTimeoutError(cur.id)
            /\ teardownStarts' = teardownStarts + 1
            /\ pc' = "unmount" /\ idx' = 1 /\ raised' = raised
            /\ UNCHANGED <<mountObserved, entered>>

MountWait ==
    /\ pc = "mountwait"
    /\ UNCHANGED <<clients, config, fuse_daemons, envVars, issued, teardownStarts, pending>>
    /\ IF wait_until_fuse_mounted(cur.id) = "mounted"
       THEN /\ mountObserved' = mountObserved \cup {cur.id}
            /\ Continue("mountwait", "workload")
            /\ entered' = (idx = N)
            /\ failed' = failed
       ELSE /\ failed' = failed \cup {<<"mountwait", cur.id>>}
            /\ Raise(MountTimeoutError(cur.id))
            /\ UNCHANGED <<mountObserved, entered>>

(***************************************************************************)
(* Lines 194-197: the workload runs at the yield; when it returns or       *)
(* raises, the finally block starts the teardown loop.                     *)
(***************************************************************************)
EnterFinally(e) ==
    /\ pending' = e
    /\ teardownStarts' = teardownStarts + 1
    /\ pc' = "unmount"
    /\ idx' = 1
    /\ raised' = raised

WorkloadReturn ==
    /\ pc = "workload"
    /\ EnterFinally(NoExc)
    /\ UNCHANGED <<clients, config, fuse_daemons, envVars, issued, failed,
                   mountObserved, entered>>

WorkloadRaise_NoFinally ==
    /\ pc = "workload"
    /\ pending' = WorkloadError
    /\ Raise(WorkloadError)
    /\ UNCHANGED <<clients, config, fuse_daemons, envVars, issued, failed,
                   mountObserved, entered, teardownStarts>>

WorkloadRaise ==
    /\ pc = "workload"
    /\ EnterFinally(WorkloadError)
    /\ UNCHANGED <<clients, config, fuse_daemons, envVars, issued, failed,
                   mountObserved, entered>>

(***************************************************************************)
(* Lines 198-212: graceful unmount of the current client                   *)
(***************************************************************************)
tdFrame == <<clients, config, fuse_daemons, mountObserved, entered, teardownStarts, pending>>

Unmount_Swallow ==
    /\ pc = "unmount"
    /\ issued' = Issue("unmount", cur.id)
    /\ UNCHANGED <<tdFrame, proc, dirs, aborted>>
    /\ \/ /\ mounted[cur.id]
          /\ mounted' = [mounted EXCEPT ![cur.id] = FALSE]
          /\ failed' = failed
          /\ pc' = "wait" /\ idx' = idx /\ raised' = raised
       \/ /\ failed' = failed \cup {<<"unmount", cur.id>>}
          /\ mounted' = mounted
          /\ IF cleanup_on_failure(cur.id)
             THEN pc' = "abort" /\ idx' = idx /\ raised' = raised
             ELSE pc' = "wait" /\ idx' = idx /\ raised' = raised

Unmount_SkipWait ==
    /\ pc = "unmount"
    /\ issued' = Issue("unmount", cur.id)
    /\ UNCHANGED <<tdFrame, proc, dirs, aborted>>
    /\ \/ /\ mounted[cur.id]
          /\ mounted' = [mounted EXCEPT ![cur.id] = FALSE]
          /\ failed' = failed
          /\ Continue("unmount", "rmdir")
       \/ /\ failed' = failed \cup {<<"unmount", cur.id>>}
          /\ mounted' = mounted
          /\ IF cleanup_on_failure(cur.id)
             THEN pc' = "abort" /\ idx' = idx /\ raised' = raised
             ELSE Raise(CommandFailedError(cur.id))

\* _fuse_unmount(remote, mnt) at line 207 and the except clause at 208-211
Unmount ==
    /\ pc = "unmount"
    /\ issued' = Issue("unmount", cur.id)
    /\ UNCHANGED <<tdFrame, proc, dirs, aborted>>
    /\ \/ \* fusermount -u succeeds
          /\ mounted[cur.id]
          /\ mounted' = [mounted EXCEPT ![cur.id] = FALSE]
          /\ failed' = failed
          /\ pc' = "wait" /\ idx' = idx /\ raised' = raised
       \/ \* fusermount -u fails (always so when nothing is mounted there)
          /\ failed' = failed \cup {<<"unmount", cur.id>>}
          /\ mounted' = mounted
          /\ IF cleanup_on_failure(cur.id)
             THEN pc' = "abort" /\ idx' = idx /\ raised' = raised
             ELSE Raise(CommandFailedError(cur.id))

(***************************************************************************)
(* Lines 20-39: _abort_fuse_mount, called at line 212 from the except      *)
(* clause: a failure of either command leaves the generator.               *)
(***************************************************************************)
AbortConnections_Swallow ==
    /\ pc = "abort"
    /\ issued' = Issue("abort", cur.id)
    /\ UNCHANGED <<tdFrame, proc, dirs, mounted>>
    /\ \/ /\ aborted' = [c \in Ids |->
                           aborted[c] \/ (c \in OnRemote(cur.remote) /\ mounted[c])]
          /\ failed' = failed
          /\ pc' = "umount" /\ idx' = idx /\ raised' = raised
       \/ /\ failed' = failed \cup {<<"abort", cur.id>>}
          /\ aborted' = aborted
          /\ pc' = "wait" /\ idx' = idx /\ raised' = raised

\* echo 1 > /sys/fs/fuse/connections/*/abort on the client's remote
AbortConnections ==
    /\ pc = "abort"
    /\ issued' = Issue("abort", cur.id)
    /\ UNCHANGED <<tdFrame, proc, dirs, mounted>>
    /\ \/ \* every fuse connection of the host is aborted
          /\ aborted' = [c \in Ids |->
                           aborted[c] \/ (c \in OnRemote(cur.remote) /\ mounted[c])]
          /\ failed' = failed
          /\ pc' = "umount" /\ idx' = idx /\ raised' = raised
       \/ /\ failed' = failed \cup {<<"abort", cur.id>>}
          /\ aborted' = aborted
          /\ Raise(CommandFailedError(cur.id))

\* sudo umount -l -f mnt
ForceUmount ==
    /\ pc = "umount"
    /\ issued' = Issue("umount", cur.id)
    /\ UNCHANGED <<tdFrame, proc, dirs, aborted>>
    /\ \/ /\ mounted[cur.id]
          /\ mounted' = [mounted EXCEPT ![cur.id] = FALSE]
          /\ failed' = failed
          /\ pc' = "wait" /\ idx' = idx /\ raised' = raised
       \/ \* umount fails (always so when nothing is mounted there)
          /\ failed' = failed \cup {<<"umount", cur.id>>}
          /\ mounted' = mounted
          /\ Raise(CommandFailedError(cur.id))

(***************************************************************************)
(* Lines 41-61 and 214-219: _wait_for_daemons and its except clause        *)
(***************************************************************************)
\* run.wait(processes, timeout): returns when every process has exited with
\* success, raises CommandFailedError for a process that exited with a
\* failure, raises Timeout when a process outlives the timeout
run_wait(processes, timeout) ==
    (IF \A c \in processes : proc[c] = "ok" THEN {"done"} ELSE {}) \cup
    (IF \E c \in processes : proc[c] = "failed" THEN {"CommandFailedError"} ELSE {}) \cup
    (IF timeout # None /\ \E c \in processes : proc[c] = "running" THEN {"Timeout"} ELSE {})

WaitFailed_AlwaysRaise == Raise(CommandFailedError(cur.id))

\* the except clause at lines 216-219
WaitFailed ==
    IF cleanup_on_failure(cur.id)
    THEN Continue("unmount", "rmdir")
    ELSE Raise(CommandFailedError(cur.id))

Wait_RmdirInterleaved ==
    /\ pc = "wait"
    /\ issued' = Issue("wait", cur.id)
    /\ UNCHANGED <<tdFrame, envVars>>
    /\ \E r \in run_wait(DOMAIN fuse_daemons, fuse_timeout(cur.id)) :
         \/ /\ r = "done"
            /\ failed' = failed
            /\ pc' = "rmdir" /\ idx' = idx /\ raised' = raised
         \/ /\ r = "Timeout"
            /\ failed' = failed
            /\ pc' = "kill" /\ idx' = idx /\ raised' = raised
         \/ /\ r = "CommandFailedError"
            /\ failed' = failed \cup {<<"wait", cur.id>>}
            /\ WaitFailed

Wait_DefaultTimeout ==
    /\ pc = "wait"
    /\ issued' = Issue("wait", cur.id)
    /\ UNCHANGED <<tdFrame, envVars>>
    /\ \E r \in run_wait(DOMAIN fuse_daemons, Some(FuseTimeout)) :
         \/ /\ r = "done"
            /\ failed' = failed
            /\ Continue("unmount", "rmdir")
         \/ /\ r = "Timeout"
            /\ failed' = failed
            /\ pc' = "kill" /\ idx' = idx /\ raised' = raised
         \/ /\ r = "CommandFailedError"
            /\ failed' = failed \cup {<<"wait", cur.id>>}
            /\ WaitFailed

\* run.wait(fuse_daemons.itervalues(), timeout=timeout) at line 46
Wait ==
    /\ pc = "wait"
    /\ issued' = Issue("wait", cur.id)
    /\ UNCHANGED <<tdFrame, envVars>>
    /\ \E r \in run_wait(DOMAIN fuse_daemons, fuse_timeout(cur.id)) :
         \/ /\ r = "done"
            /\ failed' = failed
            /\ Continue("unmount", "rmdir")
         \/ /\ r = "Timeout"
            /\ failed' = failed
            /\ pc' = "kill" /\ idx' = idx /\ raised' = raised
         \/ /\ r = "CommandFailedError"
            /\ failed' = failed \cup {<<"wait", cur.id>>}
            /\ WaitFailed

Kill_GiveUp ==
    /\ pc = "kill"
    /\ issued' = Issue("kill", cur.id)
    /\ UNCHANGED <<tdFrame, mounted, dirs, aborted>>
    /\ \/ /\ \E c \in OnRemote(cur.remote) : proc[c] = "running"
          /\ proc' = [c \in Ids |->
                        IF c \in OnRemote(cur.remote) /\ proc[c] = "running"
                        THEN "failed" ELSE proc[c]]
          /\ failed' = failed
          /\ Raise(CommandFailedError(cur.id))
       \/ /\ failed' = failed \cup {<<"kill", cur.id>>}
          /\ proc' = proc
          /\ WaitFailed

Kill_Retire ==
    /\ pc = "kill"
    /\ issued' = Issue("kill", cur.id)
    /\ UNCHANGED <<clients, config, mountObserved, entered, teardownStarts, pending,
                   mounted, dirs, aborted>>
    /\ \/ /\ \E c \in OnRemote(cur.remote) : proc[c] = "running"
          /\ proc' = [c \in Ids |->
                        IF c \in OnRemote(cur.remote) /\ proc[c] = "running"
                        THEN "failed" ELSE proc[c]]
          /\ fuse_daemons' = [c \in {d \in DOMAIN fuse_daemons : proc'[d] # "failed"}
                                |-> fuse_daemons[c]]
          /\ failed' = failed
          /\ pc' = "wait" /\ idx' = idx /\ raised' = raised
       \/ /\ failed' = failed \cup {<<"kill", cur.id>>}
          /\ proc' = proc
          /\ fuse_daemons' = fuse_daemons
          /\ WaitFailed

\* sudo killall -9 ceph-fuse on the client's remote (lines 54-61), then the
\* while loop waits again
Kill ==
    /\ pc = "kill"
    /\ issued' = Issue("kill", cur.id)
    /\ UNCHANGED <<tdFrame, mounted, dirs, aborted>>
    /\ \/ \* every ceph-fuse process of the host is killed
          /\ \E c \in OnRemote(cur.remote) : proc[c] = "running"
          /\ proc' = [c \in Ids |->
                        IF c \in OnRemote(cur.remote) /\ proc[c] = "running"
                        THEN "failed" ELSE proc[c]]
          /\ failed' = failed
          /\ pc' = "wait" /\ idx' = idx /\ raised' = raised
       \/ \* killall fails (always so when the host has no ceph-fuse process)
          /\ failed' = failed \cup {<<"kill", cur.id>>}
          /\ proc' = proc
          /\ WaitFailed

(***************************************************************************)
(* Lines 221-229: the directory-removal loop; when the finally block ends  *)
(* the exception of the workload, if any, is raised again.                 *)
(***************************************************************************)
Rmdir_SwallowExc ==
    /\ pc = "rmdir"
    /\ issued' = Issue("rmdir", cur.id)
    /\ UNCHANGED <<tdFrame, proc, mounted, aborted>>
    /\ \/ /\ dirs[cur.id] /\ ~mounted[cur.id]
          /\ dirs' = [dirs EXCEPT ![cur.id] = FALSE]
          /\ failed' = failed
          /\ IF idx < N
             THEN pc' = "rmdir" /\ idx' = idx + 1 /\ raised' = raised
             ELSE Raise(NoExc)
       \/ /\ failed' = failed \cup {<<"rmdir", cur.id>>}
          /\ dirs' = dirs
          /\ Raise(CommandFailedError(cur.id))

Rmdir_FirstOnly ==
    /\ pc = "rmdir"
    /\ issued' = Issue("rmdir", cur.id)
    /\ UNCHANGED <<tdFrame, proc, mounted, aborted>>
    /\ \/ /\ dirs[cur.id] /\ ~mounted[cur.id]
          /\ dirs' = [dirs EXCEPT ![cur.id] = FALSE]
          /\ failed' = failed
          /\ Raise(pending)
       \/ /\ failed' = failed \cup {<<"rmdir", cur.id>>}
          /\ dirs' = dirs
          /\ Raise(CommandFailedError(cur.id))

Rmdir ==
    /\ pc = "rmdir"
    /\ issued' = Issue("rmdir", cur.id)
    /\ UNCHANGED <<tdFrame, proc, mounted, aborted>>
    /\ \/ \* rmdir succeeds
          /\ dirs[cur.id] /\ ~mounted[cur.id]
          /\ dirs' = [dirs EXCEPT ![cur.id] = FALSE]
          /\ failed' = failed
          /\ IF idx < N
             THEN pc' = "rmdir" /\ idx' = idx + 1 /\ raised' = raised
             ELSE Raise(pending)
       \/ \* rmdir fails: the CommandFailedError leaves the generator
          /\ failed' = failed \cup {<<"rmdir", cur.id>>}
          /\ dirs' = dirs
          /\ Raise(CommandFailedError(cur.id))

(***************************************************************************)
(* The hosts: what the daemons do on their own                             *)
(***************************************************************************)
coordVars == <<clients, config, pc, idx, fuse_daemons, raised>>

\* a started daemon mounts the filesystem on its mount point
MountAppears(c) ==
    /\ pc \in {"launch", "mountwait"}
    /\ proc[c] = "running" /\ ~mounted[c] /\ dirs[c]
    /\ mounted' = [mounted EXCEPT ![c] = TRUE]
    /\ UNCHANGED <<coordVars, histVars, proc, dirs, aborted>>

\* a daemon whose mount point was unmounted exits
DaemonExit(c) ==
    /\ proc[c] = "running" /\ c \in mountObserved /\ ~mounted[c]
    /\ proc' = [proc EXCEPT ![c] = "ok"]
    /\ UNCHANGED <<coordVars, histVars, mounted, dirs, aborted>>

\* a daemon dies at any time; its mount point stays or goes with it
DaemonCrash(c) ==
    /\ pc # "exited"
    /\ proc[c] = "running"
    /\ proc' = [proc EXCEPT ![c] = "failed"]
    /\ \E m \in {mounted[c], FALSE} : mounted' = [mounted EXCEPT ![c] = m]
    /\ UNCHANGED <<coordVars, histVars, dirs, aborted>>

(***************************************************************************)
(* Specifications                                                          *)
(***************************************************************************)
Teardown ==
    Unmount \/ AbortConnections \/ ForceUmount \/ Wait \/ Kill \/ Rmdir

Task ==
    Launch \/ MountWait \/ WorkloadReturn \/ WorkloadRaise \/ Teardown

Mounts == \E c \in Ids : MountAppears(c)
Exits == \E c \in Ids : DaemonExit(c)
Crashes == \E c \in Ids : DaemonCrash(c)

Host == Mounts \/ Exits \/ Crashes

Next == Task \/ Host

Spec == Init /\ [][Next]_vars

SpecLaunch == InitLaunch /\ [][Next]_vars

\* the coordinator does not stop while a step of the teardown is enabled, and
\* a daemon whose mount point is unmounted does exit
FairSpec ==
    /\ Init /\ [][Next]_vars
    /\ WF_vars(Teardown)
    /\ WF_vars(Exits)

(***************************************************************************)
(* Properties                                                              *)
(***************************************************************************)
TeardownPcs == {"unmount", "abort", "umount", "wait", "kill", "rmdir"}
IdAt(k) == clients[k].id
\* teardown was started and ended without raising an exception of its own
TeardownEndedNormally == pc = "exited" /\ teardownStarts = 1 /\ raised = pending
TeardownEnded == pc = "exited" /\ teardownStarts = 1

\* C1: once the workload has been entered, the teardown loop is started
\* exactly once when the workload exits, by return or by exception, and it
\* never starts before the workload exits.
C1_TeardownOncePerExit ==
    /\ [][(pc = "workload" /\ pc' # pc) =>
            (pc' = "unmount" /\ idx' = 1 /\ teardownStarts' = 1)]_vars
    /\ [][teardownStarts' # teardownStarts => (pc = "workload" /\ entered)]_vars
    /\ [](pc \in TeardownPcs => teardownStarts = 1)
    /\ [](teardownStarts <= 1)

C1_Witness ==
    pc = "unmount" /\ idx = 1 /\ teardownStarts = 1 /\ pending = WorkloadError

\* C2: with at least two clients, no timeout configured, every command
\* succeeding and every daemon exiting exactly when its own mount point has
\* been unmounted, teardown eventually finishes with every mount-point
\* directory removed.
NoTimeouts == \A c \in Ids : fuse_timeout(c) = None
ScenarioBroken == failed # {} \/ \E c \in Ids : proc[c] = "failed"
AllRemoved == pc = "exited" /\ \A c \in Ids : c \in issued.rmdir /\ ~dirs[c]
C2_TeardownFinishes ==
    [](pc = "unmount" /\ idx = 1 /\ N >= 2 /\ NoTimeouts
         => <>(AllRemoved \/ ScenarioBroken))

\* C3 as stated: when teardown has ended, normally or by raising, every
\* client with a daemon handle had an unmount, a daemon wait and a directory
\* removal issued.
TornDown(c) == c \in issued.unmount /\ c \in issued.wait /\ c \in issued.rmdir
C3_Original ==
    TeardownEnded => \A c \in Launched : TornDown(c)

\* C3 amended: when teardown has ended without raising, every client with a
\* daemon handle had an unmount, a daemon wait and a directory removal issued.
C3_AllTornDownOnNormalEnd ==
    TeardownEndedNormally => \A c \in Launched : TornDown(c)

C3_Witness ==
    TeardownEndedNormally /\ N >= 2 /\ failed # {} /\ \A c \in Launched : TornDown(c)

\* C4: a failed graceful unmount of client k with cleanup_on_failure false
\* leaves teardown at once with that failure; no unmount and no daemon wait
\* is issued for a client after k.
C4_AbortOnUnmountFailure ==
    \A k \in 1..N :
        (<<"unmount", IdAt(k)>> \in failed /\ ~cleanup_on_failure(IdAt(k))) =>
            /\ pc = "exited"
            /\ raised = CommandFailedError(IdAt(k))
            /\ IdAt(k) \notin issued.wait
            /\ \A j \in (k+1)..N :
                 /\ IdAt(j) \notin issued.unmount
                 /\ IdAt(j) \notin issued.wait

C4_Witness ==
    /\ N >= 2
    /\ <<"unmount", IdAt(1)>> \in failed /\ ~cleanup_on_failure(IdAt(1))
    /\ pc = "exited" /\ proc[IdAt(2)] = "running"

\* C5: a failed graceful unmount of client k with cleanup_on_failure true is
\* followed by the fuse connection abort, then by the lazy forced unmount of
\* k's mount point, then by the daemon wait of client k; a failure of either
\* command of the forced abort leaves teardown with that failure.
C5_ForcedAbortSequence ==
    /\ [][(pc = "unmount" /\ failed' # failed /\ cleanup_on_failure(cur.id)) =>
            (pc' = "abort" /\ idx' = idx)]_vars
    /\ [][(pc = "abort" /\ pc' # pc) =>
            /\ cur.id \in issued'.abort /\ cur.id \notin issued'.umount
            /\ IF failed' = failed
               THEN pc' = "umount" /\ idx' = idx
               ELSE pc' = "exited" /\ raised' = CommandFailedError(cur.id)]_vars
    /\ [][(pc = "umount" /\ pc' # pc) =>
            /\ cur.id \in issued'.umount /\ cur.id \notin issued.wait
            /\ IF failed' = failed
               THEN pc' = "wait" /\ idx' = idx /\ ~mounted'[cur.id]
               ELSE pc' = "exited" /\ raised' = CommandFailedError(cur.id)]_vars
    /\ [](pc \in {"abort", "umount"} =>
            (<<"unmount", cur.id>> \in failed /\ cleanup_on_failure(cur.id)))
    /\ [](\A c \in Ids : c \in issued.umount => c \in issued.abort)

C5_Witness ==
    /\ N >= 2
    /\ IdAt(1) \in issued.umount /\ <<"umount", IdAt(1)>> \notin failed
    /\ IdAt(1) \in issued.wait
    /\ IdAt(2) \in issued.unmount

\* C6: with cleanup_on_failure true and a timeout set for client k, a wait
\* that elapses while k's daemon is running is followed by a forced kill, and
\* a kill that was carried out by another wait; the daemons dying of the kill,
\* the wait step eventually ends with a kill issued and teardown goes on to
\* the next client or to the directory removal.
Tolerant(c) == cleanup_on_failure(c) /\ fuse_timeout(c) # None
C6_KillThenWaitAgain ==
    /\ [][(pc = "wait" /\ Tolerant(cur.id) /\ proc[cur.id] = "running"
             /\ pc' # pc /\ failed' = failed) =>
            (pc' = "kill" /\ idx' = idx)]_vars
    /\ [][(pc = "kill" /\ pc' # pc) =>
            /\ cur.id \in issued'.kill
            /\ (failed' = failed => (pc' = "wait" /\ idx' = idx))]_vars
    /\ [][(pc = "kill" /\ Tolerant(cur.id) /\ pc' \notin {"kill", "wait"}) =>
            /\ pc' \in {"unmount", "rmdir"}
            /\ cur.id \in issued'.kill
            /\ (failed' = failed \/ <<"kill", cur.id>> \in failed')]_vars
    /\ ((pc \in {"wait", "kill"} /\ Tolerant(cur.id)) ~> (pc \in {"unmount", "rmdir"}))

C6_Witness ==
    /\ N >= 2
    /\ Tolerant(IdAt(1)) /\ IdAt(1) \in issued.kill
    /\ <<"kill", IdAt(1)>> \notin failed
    /\ proc[IdAt(1)] = "failed"
    /\ pc = "unmount" /\ idx = 2

\* C7: the workload is entered only after the mount-wait loop has observed
\* the mount of every launched client; when the mount of a client is not
\* observed the task fails with the mount-timeout error of that client, and
\* the workload is never entered nor the teardown started.
C7_WorkloadOnlyAfterAllMounted ==
    /\ (entered \/ pc = "workload") =>
          (Launched = Ids /\ \A c \in Ids : c \in mountObserved)
    /\ \A c \in Ids :
          <<"mountwait", c>> \in failed =>
              /\ pc = "exited" /\ raised = MountTimeoutError(c)
              /\ c \notin mountObserved
              /\ ~entered /\ teardownStarts = 0
    /\ raised.type = "MountTimeoutError" =>
          (<<"mountwait", raised.client>> \in failed /\ ~entered)

C7_Witness ==
    /\ N >= 2
    /\ IdAt(1) \in mountObserved
    /\ raised = MountTimeoutError(IdAt(2))
    /\ pc = "exited" /\ ~entered

\* C8: when the workload raised and no command of the teardown failed, the
\* exception that leaves the task is the exception of the workload; that
\* exception leaves the task only when the teardown is over, every directory
\* removal having been issued and every directory removed.
C8_WorkloadExceptionPropagates ==
    /\ (pc = "exited" /\ pending = WorkloadError /\ failed = {}) =>
          raised = WorkloadError
    /\ raised = WorkloadError =>
          /\ pc = "exited" /\ teardownStarts = 1
          /\ \A c \in Ids : TornDown(c) /\ ~dirs[c]
    /\ (pc \in TeardownPcs \/ pc = "workload") => raised = NoExc

C8_Witness ==
    pc = "exited" /\ pending = WorkloadError /\ failed = {} /\ raised = WorkloadError

(***************************************************************************)
(* The launch command of a started daemon, as passed to remote.run         *)
(***************************************************************************)
CephFuse == "/tmp/cephtest/binary/usr/local/bin/ceph-fuse"
DaemonHelper == "/tmp/cephtest/daemon-helper"
\* position of the ceph-fuse binary and of the daemon helper in a command
BinaryPos(cmd) == CHOOSE p \in 1..Len(cmd) : cmd[p] = CephFuse
HelperPos(cmd) == CHOOSE p \in 1..Len(cmd) : cmd[p] = DaemonHelper
SignalOf(cmd) == cmd[HelperPos(cmd) + 1]
\* what stands between the signal and the ceph-fuse binary
InstrumentationOf(cmd) == SubSeq(cmd, HelperPos(cmd) + 2, BinaryPos(cmd) - 1)

\* C9: the launch command of a client configured with valgrind arguments has
\* the wrapper prefix, the daemon helper with the signal 'term', the
\* instrumentation arguments immediately before the ceph-fuse binary, and
\* the mount point of the client as its last argument.
C9_ValgrindLaunchCommand ==
    \A c \in Launched :
        client_config(c).valgrind # None =>
            LET cmd == fuse_daemons[c]
                args == Val(client_config(c).valgrind)
            IN  /\ \E p \in 1..Len(cmd) : cmd[p] = CephFuse
                /\ HelperPos(cmd) = 4
                /\ SignalOf(cmd) = "term"
                /\ BinaryPos(cmd) = HelperPos(cmd) + 2 + Len(args)
                /\ InstrumentationOf(cmd) = args
                /\ cmd[Len(cmd)] = Mnt(c)
                /\ Len(cmd) = BinaryPos(cmd) + 6

C9_Witness ==
    \E c \in Launched :
        /\ client_config(c).valgrind = Some(<<"--tool=memcheck">>)
        /\ ~Truthy(client_config(c).coverage)
        /\ proc[c] = "running"

\* C10 as stated: the signal is 'term' exactly when the valgrind argument
\* sequence is non-empty or coverage is enabled, and arguments are injected
\* exactly when the sequence is non-empty.
Requested(cc) == cc.valgrind # None /\ Val(cc.valgrind) # <<>>
C10_Original ==
    \A c \in Launched :
        LET cmd == fuse_daemons[c]
            cc == client_config(c)
        IN  /\ SignalOf(cmd) = "term" <=> (Requested(cc) \/ Truthy(cc.coverage))
            /\ InstrumentationOf(cmd) # <<>> <=> Requested(cc)

\* C10 amended: the signal is 'term' exactly when the valgrind option is
\* present, be it an empty sequence, or coverage is enabled, and 'kill'
\* otherwise; the arguments injected are those of the valgrind option when
\* it is present and none when it is absent.
C10_SignalAndArgsWhenPresent ==
    \A c \in Launched :
        LET cmd == fuse_daemons[c]
            cc == client_config(c)
        IN  /\ SignalOf(cmd) \in {"term", "kill"}
            /\ SignalOf(cmd) = "term" <=> (cc.valgrind # None \/ Truthy(cc.coverage))
            /\ InstrumentationOf(cmd) =
                 (IF cc.valgrind # None THEN Val(cc.valgrind) ELSE <<>>)
            /\ (cc.valgrind = None /\ ~Truthy(cc.coverage)) =>
                 cmd = <<"/tmp/cephtest/enable-coredump",
                         "/tmp/cephtest/binary/usr/local/bin/ceph-coverage",
                         "/tmp/cephtest/archive/coverage",
                         DaemonHelper, "kill">> \o run_cmd_tail(c)

C10_Witness ==
    \E c \in Launched :
        /\ client_config(c).valgrind = Some(<<>>)
        /\ ~Truthy(client_config(c).coverage)
        /\ SignalOf(fuse_daemons[c]) = "term"

\* C11: under cleanup_on_failure, tearing down a client whose mount point is
\* not mounted is tolerated: when the only commands that fail are unmounts of
\* that mount point, no step of the client's teardown raises.
UnmountsOf(c) == {<<"unmount", c>>, <<"umount", c>>}
C11_UnmountedTolerated ==
    [][(/\ pc \in {"unmount", "abort", "umount"}
        /\ cleanup_on_failure(cur.id) /\ ~mounted[cur.id]
        /\ pc' # pc
        /\ failed' \subseteq failed \cup UnmountsOf(cur.id))
       => pc' # "exited"]_vars

\* the steps of the unmount loop, and the clients whose iteration of the
\* unmount loop is over
LoopPcs == {"unmount", "abort", "umount", "wait", "kill"}
LoopIssued(c) ==
    c \in issued.unmount \/ c \in issued.abort \/ c \in issued.umount
      \/ c \in issued.wait \/ c \in issued.kill

\* C12: during teardown the unmount step and the daemon wait of client i are
\* over before the unmount step of client i+1 starts: while the loop is at
\* client idx, every earlier client had its unmount and its wait issued and no
\* later client had any command issued, and the loop moves to the next client
\* only from the wait step of the current one.
C12_SequentialPerClient ==
    /\ [](pc \in LoopPcs =>
            /\ \A i \in 1..(idx - 1) :
                 IdAt(i) \in issued.unmount /\ IdAt(i) \in issued.wait
            /\ \A j \in (idx + 1)..N : ~LoopIssued(IdAt(j))
            /\ (pc = "unmount" => ~LoopIssued(cur.id)))
    /\ [][(pc \in LoopPcs /\ pc' \in LoopPcs /\ idx' # idx) =>
            /\ pc \in {"wait", "kill"} /\ pc' = "unmount" /\ idx' = idx + 1
            /\ cur.id \in issued'.unmount /\ cur.id \in issued'.wait]_vars

C12_Witness ==
    /\ N >= 2 /\ pc = "wait" /\ idx = 2
    /\ IdAt(1) \in issued.wait /\ IdAt(2) \in issued.unmount

\* C13: no directory removal is issued before the unmount and the daemon wait
\* of every client are over; the removals are issued in a last loop, in the
\* order of the client list.
C13_RmdirLastPass ==
    /\ issued.rmdir # {} =>
          /\ pc \in {"rmdir", "exited"}
          /\ \A c \in Ids : c \in issued.unmount /\ c \in issued.wait
    /\ pc \in LoopPcs => issued.rmdir = {}
    /\ \A j \in 1..N :
          IdAt(j) \in issued.rmdir => \A i \in 1..j : IdAt(i) \in issued.rmdir
    /\ pc = "rmdir" => issued.rmdir = {IdAt(i) : i \in 1..(idx - 1)}

C13_Witness ==
    /\ N >= 2 /\ pc = "rmdir" /\ idx = 2
    /\ IdAt(1) \in issued.rmdir /\ ~dirs[IdAt(1)] /\ dirs[IdAt(2)]

\* C14: launch is two loops in order: the directory creation and the start of
\* the daemon of every client come before the mount wait of any client, and
\* a launch step neither observes nor waits for a mount.
MountWaitStarted ==
    pc = "mountwait" \/ mountObserved # {} \/ \E c \in Ids : <<"mountwait", c>> \in failed
C14_LaunchAllThenWaitAll ==
    /\ [](MountWaitStarted =>
            (Launched = Ids /\ \A c \in Ids : c \in issued.mkdir))
    /\ [](pc = "launch" =>
            /\ mountObserved = {}
            /\ Launched = {IdAt(i) : i \in 1..(idx - 1)})
    /\ [][(pc = "launch" /\ (pc' # pc \/ idx' # idx)) =>
            /\ mountObserved' = {} /\ mounted' = mounted
            /\ (pc' # "exited" =>
                  /\ cur.id \in DOMAIN fuse_daemons'
                  /\ IF idx < N THEN pc' = "launch" /\ idx' = idx + 1
                                ELSE pc' = "mountwait" /\ idx' = 1)]_vars

\* the second daemon is started while the mount of the first is not there
C14_Witness ==
    /\ N >= 2 /\ pc = "mountwait" /\ idx = 1
    /\ Launched = Ids
    /\ \A c \in Ids : proc[c] = "running" /\ ~mounted[c]

\* C15: a command failure raised by the daemon wait of client k (by run.wait
\* or by killall) is handled by the cleanup_on_failure of client k: when it
\* is false the failure leaves teardown, no later client is unmounted or
\* waited for and no directory is removed; when it is true teardown goes on
\* with client k+1, or with the directory removal after the last client.
WaitFailures(c) == {<<"wait", c>>, <<"kill", c>>}
C15_WaitFailurePolicy ==
    /\ [](\A k \in 1..N :
            (WaitFailures(IdAt(k)) \cap failed # {} /\ ~cleanup_on_failure(IdAt(k))) =>
                /\ pc = "exited" /\ raised = CommandFailedError(IdAt(k))
                /\ issued.rmdir = {}
                /\ \A j \in (k + 1)..N : ~LoopIssued(IdAt(j)))
    /\ [][(pc \in {"wait", "kill"} /\ failed' # failed) =>
            /\ failed' \ failed \subseteq WaitFailures(cur.id)
            /\ IF cleanup_on_failure(cur.id)
               THEN /\ raised' = NoExc
                    /\ IF idx < N THEN pc' = "unmount" /\ idx' = idx + 1
                                  ELSE pc' = "rmdir" /\ idx' = 1
               ELSE pc' = "exited" /\ raised' = CommandFailedError(cur.id)]_vars

C15_Witness ==
    /\ N >= 2
    /\ <<"wait", IdAt(1)>> \in failed /\ cleanup_on_failure(IdAt(1))
    /\ <<"wait", IdAt(2)>> \in failed /\ ~cleanup_on_failure(IdAt(2))
    /\ pc = "exited" /\ raised = CommandFailedError(IdAt(2))

\* C16: when the mount wait of a client fails, no unmount, abort, wait, kill
\* or directory removal is ever issued for any client, the workload is not
\* entered, and the daemons and directories of the launch are left as they are.
C16_NoTeardownAfterMountFailure ==
    (\E c \in Ids : <<"mountwait", c>> \in failed) =>
        /\ pc = "exited" /\ raised.type = "MountTimeoutError"
        /\ ~entered /\ teardownStarts = 0
        /\ \A c \in Ids : ~LoopIssued(c) /\ c \notin issued.rmdir
        /\ \A c \in Ids : dirs[c] /\ c \in Launched

C16_Witness ==
    /\ N >= 2
    /\ raised = MountTimeoutError(IdAt(2))
    /\ proc[IdAt(1)] = "running" /\ mounted[IdAt(1)] /\ dirs[IdAt(1)]
    /\ proc[IdAt(2)] = "running"

\* C17: for a client with no timeout the daemon wait never times out: no
\* forced kill is issued in the wait step of that client, and the step ends
\* only by the wait returning, every process waited for having exited, or by
\* a command failure raised by the wait.
C17_NoTimeoutNoKill ==
    /\ [](\A c \in Ids : fuse_timeout(c) = None => c \notin issued.kill)
    /\ [](pc = "kill" => fuse_timeout(cur.id) # None)
    /\ [][(pc = "wait" /\ fuse_timeout(cur.id) = None /\ (pc' # pc \/ idx' # idx)) =>
            \/ /\ failed' = failed
               /\ proc[cur.id] = "ok"
               /\ pc' \in {"unmount", "rmdir"}
            \/ /\ failed' = failed \cup {<<"wait", cur.id>>}
               /\ failed' # failed]_vars

C17_Witness ==
    /\ N >= 2
    /\ fuse_timeout(IdAt(1)) = None /\ fuse_timeout(IdAt(2)) # None
    /\ IdAt(1) \in issued.wait /\ IdAt(1) \notin issued.kill
    /\ IdAt(2) \in issued.kill

\* C18: the registry fuse_daemons holds one handle per client id; an entry
\* is added only by a launch step, for the client of that step, which had
\* none; no entry is ever replaced or removed, so the registry does not
\* change during the mount wait, the workload or the teardown.
C18_RegistryOnlyGrowsInLaunch ==
    /\ [](DOMAIN fuse_daemons \subseteq Ids)
    /\ [](pc # "launch" /\ pc # "exited" => DOMAIN fuse_daemons = Ids)
    /\ [][fuse_daemons' # fuse_daemons =>
            /\ pc = "launch"
            /\ cur.id \notin DOMAIN fuse_daemons
            /\ DOMAIN fuse_daemons' = DOMAIN fuse_daemons \cup {cur.id}
            /\ \A c \in DOMAIN fuse_daemons : fuse_daemons'[c] = fuse_daemons[c]]_vars

C18_Witness ==
    /\ N >= 2 /\ pc = "exited" /\ teardownStarts = 1
    /\ issued.kill # {}
    /\ DOMAIN fuse_daemons = Ids

\* C19: the daemon wait of client k depends on the daemon of client k only:
\* once that daemon has exited the wait of client k can return, whatever the
\* daemons of the other clients do.
WaitReturns == Wait /\ failed' = failed /\ pc' \in {"unmount", "rmdir"}
C19_WaitOnOwnDaemon ==
    (pc = "wait" /\ proc[cur.id] = "ok") => ENABLED WaitReturns

\* C20: the forced abort and the forced kill issued in the teardown of
\* client k leave the fuse connection and the daemon of every other client
\* as they are.
C20_ForcedReclamationIsLocal ==
    [][(pc \in {"abort", "kill"} /\ pc' # pc) =>
          \A c \in Ids \ {cur.id} : proc'[c] = proc[c] /\ aborted'[c] = aborted[c]]_vars
====
